---- MODULE Spec2Model ----
(***************************************************************************)
(* A model of install.c: option parsing (getopt loop, strtoul              *)
(* conversions, identity lookups), mkparents, and the installer            *)
(* (symlink or copy to <dst>.tmp, chmod, lchown, rename) running against   *)
(* a small POSIX file system.                                              *)
(*                                                                         *)
(* C strings are sequences of one-character strings.  unsigned long is 64  *)
(* bits wide and mode_t, uid_t and gid_t are 32 bits wide (LP64); since    *)
(* the model checker's integers are narrower than that, an unsigned long   *)
(* is kept as four 16-bit limbs, least significant first, and a 32-bit     *)
(* value as the two low limbs.                                             *)
(***************************************************************************)
EXTENDS Integers, Sequences, FiniteSets, TLC

\* ------------------------------------------------------------------------
\* Bounds of the model.

\* Longest destination path of the exhaustive path family.
MaxPathLen == 5

\* Longest source file content, in bytes.
MaxData == 3

\* st_blksize of the source: the chunk size of the copy loop.
BlkSize == 2

\* Number of system call faults (EIO, ENOMEM, EPERM, a short write, ...)
\* the environment may inject in the course of one invocation.
MaxFaults == 1

\* Number of consecutive invocations.
MaxRuns == 2

\* Symbolic links followed in one path resolution before ELOOP.
SymloopMax == 2

\* ------------------------------------------------------------------------
\* Integer widths.

LimbBase == 256 * 256

\* An unsigned long from a small natural number.
UL(n) == <<n, 0, 0, 0>>

\* A 32-bit value from a small natural number.
U32(n) == <<n, 0>>

\* Conversion of an unsigned long to a 32-bit type on assignment
\* (mode = strtoul(...), group = strtoul(...), owner = strtoul(...)).
Narrow32(v) == <<v[1], v[2]>>

\* v * base + d in 64 bits: [val, carry], carry # 0 meaning overflow.
MulAdd(v, base, d) ==
    LET t1 == v[1] * base + d
        t2 == v[2] * base + t1 \div LimbBase
        t3 == v[3] * base + t2 \div LimbBase
        t4 == v[4] * base + t3 \div LimbBase
    IN  [val |-> <<t1 % LimbBase, t2 % LimbBase, t3 % LimbBase, t4 % LimbBase>>,
         carry |-> t4 \div LimbBase]

\* 2^64 - v, the value strtoul returns for a string with a minus sign.
Negate(v) ==
    LET t1 == (LimbBase - 1 - v[1]) + 1
        t2 == (LimbBase - 1 - v[2]) + t1 \div LimbBase
        t3 == (LimbBase - 1 - v[3]) + t2 \div LimbBase
        t4 == (LimbBase - 1 - v[4]) + t3 \div LimbBase
    IN  <<t1 % LimbBase, t2 % LimbBase, t3 % LimbBase, t4 % LimbBase>>

ULongMax == <<LimbBase - 1, LimbBase - 1, LimbBase - 1, LimbBase - 1>>

\* mode > 07777 for a 32-bit mode.
ModeTooBig(m) == m[2] > 0 \/ m[1] > 4095

\* ------------------------------------------------------------------------
\* strtoul(3).

DigitVal(c) ==
    CASE c = "0" -> 0 [] c = "1" -> 1 [] c = "2" -> 2 [] c = "3" -> 3
      [] c = "4" -> 4 [] c = "5" -> 5 [] c = "6" -> 6 [] c = "7" -> 7
      [] c = "8" -> 8 [] c = "9" -> 9
      [] c = "a" -> 10 [] c = "b" -> 11 [] c = "c" -> 12
      [] c = "d" -> 13 [] c = "e" -> 14 [] c = "f" -> 15
      [] OTHER -> 99

IsSpace(c) == c = " "

RECURSIVE SkipSpace(_, _)
SkipSpace(s, i) ==
    IF i <= Len(s) /\ IsSpace(s[i]) THEN SkipSpace(s, i + 1) ELSE i

\* Digits of s from position i on, in the given base: [val, n, over] with n
\* the number of digits consumed.
RECURSIVE ScanDigits(_, _, _, _, _, _)
ScanDigits(s, i, base, v, n, over) ==
    IF i <= Len(s) /\ DigitVal(s[i]) < base
    THEN LET ma == MulAdd(v, base, DigitVal(s[i]))
         IN  ScanDigits(s, i + 1, base, ma.val, n + 1, over \/ ma.carry # 0)
    ELSE [val |-> v, n |-> n, over |-> over]

\* The result of strtoul(s, &err, base) for base 0 or 8: val, the value
\* returned; end, the number of characters before *err; errno after the
\* call.  A string with no digits converts nothing, and the C library then
\* either sets EINVAL (einval) or leaves errno as it was.
Strtoul(s, base, einval) ==
    LET i0  == SkipSpace(s, 1)
        neg == i0 <= Len(s) /\ s[i0] = "-"
        i1  == IF i0 <= Len(s) /\ s[i0] \in {"+", "-"} THEN i0 + 1 ELSE i0
        hex == /\ base = 0
               /\ i1 + 2 <= Len(s)
               /\ s[i1] = "0"
               /\ s[i1 + 1] = "x"
               /\ DigitVal(s[i1 + 2]) < 16
        b   == IF base # 0 THEN base
               ELSE IF hex THEN 16
               ELSE IF i1 <= Len(s) /\ s[i1] = "0" THEN 8
               ELSE 10
        i2  == IF hex THEN i1 + 2 ELSE i1
        d   == ScanDigits(s, i2, b, UL(0), 0, FALSE)
    IN  IF d.n = 0
        THEN [val |-> UL(0), end |-> 0, errno |-> IF einval THEN "EINVAL" ELSE "0"]
        ELSE IF d.over
        THEN [val |-> ULongMax, end |-> i2 - 1 + d.n, errno |-> "ERANGE"]
        ELSE [val |-> IF neg THEN Negate(d.val) ELSE d.val,
              end |-> i2 - 1 + d.n, errno |-> "0"]

\* errno != 0 || (err && *err != '\0')
ParseFailed(s, res) == res.errno # "0" \/ res.end < Len(s)

\* ------------------------------------------------------------------------
\* Path strings.

Min(a, b) == IF a < b THEN a ELSE b

Last(s) == s[Len(s)]

Front(s) == SubSeq(s, 1, Len(s) - 1)

\* The character p points at when p = path + l: the terminating NUL at
\* l = strlen(path).
CharAt(path, l) == IF l < Len(path) THEN path[l + 1] ELSE "NUL"

\* mkparents' loop: while (l > 0 && *p != '/') { l--; p--; }
RECURSIVE ScanL(_, _)
ScanL(path, l) ==
    IF l > 0 /\ CharAt(path, l) # "/" THEN ScanL(path, l - 1) ELSE l

\* A scan forward from the second character: the first slash found, not
\* the last.
RECURSIVE ScanForward(_, _)
ScanForward(path, l) ==
    IF l < Len(path) /\ CharAt(path, l) # "/" THEN ScanForward(path, l + 1)
    ELSE IF l < Len(path) THEN l ELSE 0

\* mkparents cutting the path at its first slash.
ParentLenFirst(path) == ScanForward(path, 1)

\* l when mkparents' loop ends, started at l = strlen(path).
ParentLen(path) == ScanL(path, Len(path))

\* snprintf(tmp_path, strlen(dst_path) + 5, "%s.tmp", dst_path)
TmpPath(dst) == dst \o <<".", "t", "m", "p">>

IsAbs(path) == path # <<>> /\ path[1] = "/"

Trail(path) == path # <<>> /\ Last(path) = "/"

\* The components of a path: the maximal slash-free substrings.
RECURSIVE SplitFrom(_, _, _, _)
SplitFrom(path, i, cur, acc) ==
    IF i > Len(path)
    THEN IF cur = <<>> THEN acc ELSE Append(acc, cur)
    ELSE IF path[i] = "/"
    THEN SplitFrom(path, i + 1, <<>>, IF cur = <<>> THEN acc ELSE Append(acc, cur))
    ELSE SplitFrom(path, i + 1, Append(cur, path[i]), acc)

Split(path) == SplitFrom(path, 1, <<>>, <<>>)

\* ------------------------------------------------------------------------
\* The file system: a function from the resolved names of the existing
\* objects (a sequence of components below the root, which is also the
\* working directory) to their nodes.

MyUid == 1000

MyGid == 1000

RegNode(data, mode) ==
    [type |-> "reg", data |-> data, target |-> <<>>, mode |-> mode,
     uid |-> U32(MyUid), gid |-> U32(MyGid)]

LnkNode(target) ==
    [type |-> "lnk", data |-> <<>>, target |-> target, mode |-> 511,
     uid |-> U32(MyUid), gid |-> U32(MyGid)]

DirNode ==
    [type |-> "dir", data |-> <<>>, target |-> <<>>, mode |-> 511,
     uid |-> U32(MyUid), gid |-> U32(MyGid)]

Put(f, p, node) == [q \in DOMAIN f \cup {p} |-> IF q = p THEN node ELSE f[q]]

IsDirIn(f, p) == p = <<>> \/ (p \in DOMAIN f /\ f[p].type = "dir")

\* Path resolution from directory cur: the name the components lead to and
\* whether an object exists there.  A symbolic link is followed when it is
\* not the last component, or when follow is set.
RECURSIVE Walk(_, _, _, _, _)
Walk(f, cur, comps, follow, depth) ==
    IF comps = <<>> THEN [err |-> "OK", path |-> cur, exists |-> TRUE]
    ELSE IF ~IsDirIn(f, cur) THEN [err |-> "ENOTDIR", path |-> cur, exists |-> FALSE]
    ELSE LET p    == Append(cur, Head(comps))
             rest == Tail(comps)
         IN  IF p \notin DOMAIN f
             THEN IF rest = <<>>
                  THEN [err |-> "OK", path |-> p, exists |-> FALSE]
                  ELSE [err |-> "ENOENT", path |-> p, exists |-> FALSE]
             ELSE IF f[p].type = "lnk" /\ (rest # <<>> \/ follow)
             THEN IF depth = 0
                  THEN [err |-> "ELOOP", path |-> p, exists |-> FALSE]
                  ELSE Walk(f, IF IsAbs(f[p].target) THEN <<>> ELSE cur,
                            Split(f[p].target) \o rest, follow, depth - 1)
             ELSE Walk(f, p, rest, follow, depth)

Lookup(f, path, follow) ==
    IF path = <<>> THEN [err |-> "ENOENT", path |-> <<>>, exists |-> FALSE]
    ELSE LET r == Walk(f, <<>>, Split(path), follow \/ Trail(path), SymloopMax)
         IN  IF r.err = "OK" /\ Trail(path) /\ r.exists /\ ~IsDirIn(f, r.path)
             THEN [err |-> "ENOTDIR", path |-> r.path, exists |-> TRUE]
             ELSE r

\* mkdir(path, 0777)
FsMkdir(f, path) ==
    LET r == Walk(f, <<>>, Split(path), FALSE, SymloopMax)
    IN  IF path = <<>> THEN [err |-> "ENOENT", fs |-> f]
        ELSE IF r.err # "OK" THEN [err |-> r.err, fs |-> f]
        ELSE IF r.exists THEN [err |-> "EEXIST", fs |-> f]
        ELSE [err |-> "OK", fs |-> Put(f, r.path, DirNode)]

\* symlink(target, linkpath)
FsSymlink(f, target, linkpath) ==
    LET r == Lookup(f, linkpath, FALSE)
    IN  IF target = <<>> THEN [err |-> "ENOENT", fs |-> f]
        ELSE IF r.err # "OK" THEN [err |-> r.err, fs |-> f]
        ELSE IF r.exists THEN [err |-> "EEXIST", fs |-> f]
        ELSE IF Trail(linkpath) THEN [err |-> "ENOENT", fs |-> f]
        ELSE [err |-> "OK", fs |-> Put(f, r.path, LnkNode(target))]

\* open(path, O_RDONLY): the node opened, by its resolved name.
FsOpenRead(f, path) ==
    LET r == Lookup(f, path, TRUE)
    IN  IF r.err # "OK" THEN [err |-> r.err, node |-> <<>>]
        ELSE IF ~r.exists THEN [err |-> "ENOENT", node |-> <<>>]
        ELSE [err |-> "OK", node |-> r.path]

\* open(path, O_RDWR | O_CREAT, 0600): an existing file is opened as it is
\* (through a symbolic link, and neither truncated nor refused), a missing
\* one is created, also at the far end of a dangling symbolic link.
FsOpenCreate(f, path) ==
    LET r == Lookup(f, path, TRUE)
    IN  IF r.err # "OK" THEN [err |-> r.err, node |-> <<>>, fs |-> f]
        ELSE IF r.exists
        THEN IF IsDirIn(f, r.path)
             THEN [err |-> "EISDIR", node |-> <<>>, fs |-> f]
             ELSE [err |-> "OK", node |-> r.path, fs |-> f]
        ELSE IF Trail(path) THEN [err |-> "EISDIR", node |-> <<>>, fs |-> f]
        ELSE [err |-> "OK", node |-> r.path, fs |-> Put(f, r.path, RegNode(<<>>, 384))]

\* The file content after writing bytes at offset off.
WriteAt(data, off, bytes) ==
    [i \in 1..(IF off + Len(bytes) > Len(data) THEN off + Len(bytes) ELSE Len(data)) |->
        IF i > off /\ i <= off + Len(bytes) THEN bytes[i - off] ELSE data[i]]

\* chmod(path, mode): follows a symbolic link.
FsChmod(f, path, m) ==
    LET r == Lookup(f, path, TRUE)
    IN  IF r.err # "OK" THEN [err |-> r.err, fs |-> f]
        ELSE IF ~r.exists THEN [err |-> "ENOENT", fs |-> f]
        ELSE IF r.path = <<>> THEN [err |-> "EPERM", fs |-> f]
        ELSE [err |-> "OK", fs |-> [f EXCEPT ![r.path].mode = m]]

\* (uid_t)-1 and (gid_t)-1: the ID lchown leaves as it is.
NoChange == <<LimbBase - 1, LimbBase - 1>>

\* lchown(path, owner, group): acts on a symbolic link itself.
FsLchown(f, path, o, g) ==
    LET r == Lookup(f, path, FALSE)
    IN  IF r.err # "OK" THEN [err |-> r.err, fs |-> f]
        ELSE IF ~r.exists THEN [err |-> "ENOENT", fs |-> f]
        ELSE IF r.path = <<>> THEN [err |-> "EPERM", fs |-> f]
        ELSE [err |-> "OK",
              fs |-> [f EXCEPT ![r.path].uid = IF o = NoChange THEN @ ELSE o,
                               ![r.path].gid = IF g = NoChange THEN @ ELSE g]]

IsUnder(q, p) == Len(q) >= Len(p) /\ SubSeq(q, 1, Len(p)) = p

\* rename(old, new): neither path's last component is followed; the object
\* at old (with what is below it) takes the place of the one at new.
FsRename(f, old, new) ==
    LET ro == Lookup(f, old, FALSE)
        rn == Lookup(f, new, FALSE)
    IN  IF ro.err # "OK" THEN [err |-> ro.err, fs |-> f]
        ELSE IF ~ro.exists THEN [err |-> "ENOENT", fs |-> f]
        ELSE IF rn.err # "OK" THEN [err |-> rn.err, fs |-> f]
        ELSE IF ro.path = <<>> \/ rn.path = <<>> THEN [err |-> "EBUSY", fs |-> f]
        ELSE IF ~IsDirIn(f, ro.path) /\ Trail(new) THEN [err |-> "ENOTDIR", fs |-> f]
        ELSE IF ~IsDirIn(f, ro.path) /\ rn.exists /\ IsDirIn(f, rn.path)
        THEN [err |-> "EISDIR", fs |-> f]
        ELSE IF IsDirIn(f, ro.path) /\ rn.exists /\ ~IsDirIn(f, rn.path)
        THEN [err |-> "ENOTDIR", fs |-> f]
        ELSE IF IsDirIn(f, ro.path) /\ IsUnder(rn.path, ro.path) /\ rn.path # ro.path
        THEN [err |-> "EINVAL", fs |-> f]
        ELSE IF \E q \in DOMAIN f : IsUnder(q, rn.path) /\ q # rn.path /\ rn.path # ro.path
        THEN [err |-> "ENOTEMPTY", fs |-> f]
        ELSE IF ro.path = rn.path THEN [err |-> "OK", fs |-> f]
        ELSE LET moved == {q \in DOMAIN f : IsUnder(q, ro.path)}
                 To(q) == rn.path \o SubSeq(q, Len(ro.path) + 1, Len(q))
                 kept  == (DOMAIN f \ moved) \ {rn.path}
             IN  [err |-> "OK",
                  fs |-> [q \in kept \cup {To(m) : m \in moved} |->
                            IF q \in kept THEN f[q]
                            ELSE f[CHOOSE m \in moved : To(m) = q]]]

\* ------------------------------------------------------------------------
\* The identity databases: the only name either of them knows is root.

NameRoot == <<"r", "o", "o", "t">>

\* getgrnam(name): whether an entry is returned (not NULL), and its gr_gid.
Getgrnam(name) == [found |-> name = NameRoot, id |-> U32(0)]

\* getpwnam(name): whether an entry is returned (not NULL), and its pw_uid.
Getpwnam(name) == [found |-> name = NameRoot, id |-> U32(0)]

\* ------------------------------------------------------------------------
\* The program.

VARIABLES
    run,        \* number of the invocation under way
    opts,       \* the options getopt has yet to return: <<character, optarg>>
    args,       \* the positional arguments, argv[optind..]
    mkdirp, symbolic, mode, owner, group,
    src_path, dst_path, tmp_path,
    pc,         \* the statement the invocation is at
    status,     \* the exit status, 0 or 1; -1 while the invocation runs
    msg,        \* the message of fatal()
    fs,         \* the file system
    mkstack,    \* mkparents: the buf of every call that is under way
    mklog,      \* the mkdir calls issued: <<path, outcome>>
    mkret,      \* what mkparents(dst_path) returned to main: "0", "-1"
    lookups,    \* the getgrnam and getpwnam calls issued: <<function, name>>
    src_fd, tmp_fd, buf, r,
    nfault,     \* the faults injected in this invocation
    libc_einval, \* whether the C library's strtoul sets EINVAL on no digits
    start,      \* the invocation's argv and the file system it started in
    prev        \* the invocation before it and how that one ended

vars == <<run, opts, args, mkdirp, symbolic, mode, owner, group, src_path,
          dst_path, tmp_path, pc, status, msg, fs, mkstack, mklog, mkret,
          lookups,
          src_fd, tmp_fd, buf, r, nfault, libc_einval, start, prev>>

locals == <<mkdirp, symbolic, mode, owner, group>>
paths  == <<src_path, dst_path, tmp_path>>
mkvars == <<mkstack, mklog, mkret>>
fds    == <<src_fd, tmp_fd, buf, r>>
frame  == <<run, args, libc_einval, start, prev>>

\* A char * that is NULL.
NullPath == <<>>

NoFd == [node |-> <<>>, off |-> -1]

\* exit(1) from fatal(fmt, ...)
Fatal(m) == status' = 1 /\ msg' = m /\ pc' = "exit"

CanFault == nfault < MaxFaults

\* The locals of main as declared (lines 86-101) for the given argv.
Enter(o, a, f, n) ==
    /\ run = n
    /\ opts = o
    /\ args = a
    /\ mkdirp = FALSE
    /\ symbolic = FALSE
    /\ owner = U32(MyUid)
    /\ group = U32(MyGid)
    /\ mode = U32(493)
    /\ src_path = NullPath
    /\ dst_path = NullPath
    /\ tmp_path = NullPath
    /\ pc = "getopt"
    /\ status = -1
    /\ msg = ""
    /\ fs = f
    /\ mkstack = <<>>
    /\ mklog = <<>>
    /\ mkret = "none"
    /\ lookups = <<>>
    /\ src_fd = NoFd
    /\ tmp_fd = NoFd
    /\ buf = <<>>
    /\ r = 0
    /\ nfault = 0
    /\ start = [opts |-> o, args |-> a, fs |-> f]

AtOpt(c) == pc = "getopt" /\ opts # <<>> /\ Head(opts)[1] \in c

optarg == Head(opts)[2]

\* case 'D'
OptD ==
    /\ AtOpt({"D"})
    /\ mkdirp' = TRUE
    /\ opts' = Tail(opts)
    /\ UNCHANGED <<symbolic, mode, owner, group, paths, pc, status, msg, fs,
                   mkvars, lookups, fds, nfault, frame>>

\* case 'g'
OptG ==
    /\ AtOpt({"g"})
    /\ LET res == Strtoul(optarg, 0, libc_einval) IN
         IF ParseFailed(optarg, res)
         THEN /\ lookups' = Append(lookups, <<"getgrnam", optarg>>)
              /\ IF ~Getgrnam(optarg).found
                 THEN /\ Fatal("invalid group")
                      /\ group' = Narrow32(res.val)
                      /\ opts' = opts
                 ELSE /\ group' = Getgrnam(optarg).id
                      /\ opts' = Tail(opts)
                      /\ UNCHANGED <<pc, status, msg>>
         ELSE /\ group' = Narrow32(res.val)
              /\ opts' = Tail(opts)
              /\ UNCHANGED <<pc, status, msg, lookups>>
    /\ UNCHANGED <<mkdirp, symbolic, mode, owner, paths, fs, mkvars, fds,
                   nfault, frame>>

\* case 'h'
OptH ==
    /\ AtOpt({"h"})
    /\ status' = 0
    /\ msg' = "usage"
    /\ pc' = "exit"
    /\ UNCHANGED <<opts, locals, paths, fs, mkvars, lookups, fds, nfault, frame>>

\* case 'l'
OptL ==
    /\ AtOpt({"l"})
    /\ symbolic' = TRUE
    /\ opts' = Tail(opts)
    /\ UNCHANGED <<mkdirp, mode, owner, group, paths, pc, status, msg, fs,
                   mkvars, lookups, fds, nfault, frame>>

\* case 'm'
OptM ==
    /\ AtOpt({"m"})
    /\ LET res == Strtoul(optarg, 8, libc_einval) IN
         /\ mode' = Narrow32(res.val)
         /\ IF ParseFailed(optarg, res)
            THEN Fatal("invalid mode") /\ opts' = opts
            ELSE opts' = Tail(opts) /\ UNCHANGED <<pc, status, msg>>
    /\ UNCHANGED <<mkdirp, symbolic, owner, group, paths, fs, mkvars, lookups,
                   fds, nfault, frame>>

\* case 'o'
OptO ==
    /\ AtOpt({"o"})
    /\ LET res == Strtoul(optarg, 0, libc_einval) IN
         IF ParseFailed(optarg, res)
         THEN /\ lookups' = Append(lookups, <<"getpwnam", optarg>>)
              /\ IF ~Getpwnam(optarg).found
                 THEN /\ Fatal("invalid user")
                      /\ owner' = Narrow32(res.val)
                      /\ opts' = opts
                 ELSE /\ owner' = Getpwnam(optarg).id
                      /\ opts' = Tail(opts)
                      /\ UNCHANGED <<pc, status, msg>>
         ELSE /\ owner' = Narrow32(res.val)
              /\ opts' = Tail(opts)
              /\ UNCHANGED <<pc, status, msg, lookups>>
    /\ UNCHANGED <<mkdirp, symbolic, mode, group, paths, fs, mkvars, fds,
                   nfault, frame>>

\* case ':'
OptMissingArg ==
    /\ AtOpt({":"})
    /\ Fatal("option requires argument")
    /\ UNCHANGED <<opts, locals, paths, fs, mkvars, lookups, fds, nfault, frame>>

\* default: an option getopt does not know ('?'), and 'r', which the
\* option string lists and the switch does not.
OptDefault ==
    /\ AtOpt({"?", "r"})
    /\ Fatal("invalid option")
    /\ UNCHANGED <<opts, locals, paths, fs, mkvars, lookups, fds, nfault, frame>>

\* Where main goes once mkparents has returned 0, or was not asked for.
InstallStart == IF symbolic THEN "symlink" ELSE "lstat"

\* Lines 162-176, getopt having returned -1: the argument count, the mode's
\* range, the paths.
CheckArgs ==
    /\ pc = "getopt"
    /\ opts = <<>>
    /\ \E fail \in {FALSE} \cup {f \in {TRUE} : CanFault} :
         IF Len(args) # 2
         THEN Fatal("expected arguments") /\ UNCHANGED <<paths, nfault>>
         ELSE IF ModeTooBig(mode)
         THEN Fatal("invalid mode") /\ UNCHANGED <<paths, nfault>>
         ELSE /\ src_path' = args[1]
              /\ dst_path' = args[2]
              /\ IF fail
                 THEN /\ Fatal("malloc(3) failure")
                      /\ nfault' = nfault + 1
                      /\ tmp_path' = NullPath
                 ELSE /\ tmp_path' = TmpPath(args[2])
                      /\ pc' = IF mkdirp THEN "mkparents" ELSE InstallStart
                      /\ UNCHANGED <<status, msg, nfault>>
    /\ UNCHANGED <<opts, locals, fs, mkvars, lookups, fds, frame>>

\* mkparents, lines 51-72, of the call at the top of the stack: the length
\* of the parent prefix; return 0 when there is none; else allocate buf,
\* copy the prefix and call mkparents(buf).  A failed malloc returns -1
\* through every call under way, and main ends with fatal().
MkParentsCall ==
    /\ pc = "mkparents"
    /\ LET path == IF mkstack = <<>> THEN dst_path ELSE Last(mkstack)
           l    == ParentLen(path)
       IN  \E fail \in {FALSE} \cup {f \in {TRUE} : CanFault /\ l > 0} :
             IF l = 0
             THEN /\ pc' = IF mkstack = <<>> THEN InstallStart ELSE "mkdir"
                  /\ mkret' = IF mkstack = <<>> THEN "0" ELSE mkret
                  /\ UNCHANGED <<status, msg, mkstack, nfault>>
             ELSE IF fail
             THEN /\ Fatal("failed to create directories")
                  /\ mkret' = "-1"
                  /\ nfault' = nfault + 1
                  /\ UNCHANGED mkstack
             ELSE /\ mkstack' = Append(mkstack, SubSeq(path, 1, l))
                  /\ UNCHANGED <<pc, status, msg, nfault, mkret>>
    /\ UNCHANGED <<opts, locals, paths, fs, mklog, lookups, fds, frame>>

\* mkparents, lines 74-77, of the call at the top of the stack, the call it
\* made having returned 0: mkdir(buf, 0777), whose result is not looked
\* at, free(buf), return 0.
MkParentsMkdir ==
    /\ pc = "mkdir"
    /\ mkstack # <<>>
    /\ \E fail \in {FALSE} \cup {f \in {TRUE} : CanFault} :
         LET res == IF fail THEN [err |-> "EIO", fs |-> fs]
                    ELSE FsMkdir(fs, Last(mkstack))
         IN  /\ fs' = res.fs
             /\ mklog' = Append(mklog, <<Last(mkstack), res.err>>)
             /\ nfault' = IF fail THEN nfault + 1 ELSE nfault
    /\ mkstack' = Front(mkstack)
    /\ mkret' = IF Len(mkstack) = 1 THEN "0" ELSE mkret
    /\ pc' = IF Len(mkstack) = 1 THEN InstallStart ELSE "mkdir"
    /\ UNCHANGED <<opts, locals, paths, status, msg, lookups, fds, frame>>

\* Lines 185-187: symlink(src_path, tmp_path)
Symlink ==
    /\ pc = "symlink"
    /\ \E fail \in {FALSE} \cup {f \in {TRUE} : CanFault} :
         LET res == IF fail THEN [err |-> "EIO", fs |-> fs]
                    ELSE FsSymlink(fs, src_path, tmp_path)
         IN  /\ fs' = res.fs
             /\ nfault' = IF fail THEN nfault + 1 ELSE nfault
             /\ IF res.err # "OK"
                THEN Fatal("symlink(3) failure")
                ELSE pc' = "chmod" /\ UNCHANGED <<status, msg>>
    /\ UNCHANGED <<opts, locals, paths, mkvars, lookups, fds, frame>>

\* Lines 193-206: lstat(src_path, &src_stat) and the checks of st_mode.
Lstat ==
    /\ pc = "lstat"
    /\ \E fail \in {FALSE} \cup {f \in {TRUE} : CanFault} :
         LET res == IF fail THEN [err |-> "EACCES", path |-> <<>>, exists |-> FALSE]
                    ELSE Lookup(fs, src_path, FALSE)
             type == IF res.path = <<>> THEN "dir" ELSE fs[res.path].type
         IN  /\ nfault' = IF fail THEN nfault + 1 ELSE nfault
             /\ IF res.err = "ENOENT" \/ (res.err = "OK" /\ ~res.exists)
                THEN Fatal("source does not exist")
                ELSE IF res.err # "OK"
                THEN Fatal("lstat(3) failure")
                ELSE IF type \notin {"lnk", "reg"}
                THEN IF type = "dir"
                     THEN Fatal("source is a directory")
                     ELSE Fatal("source is not a regular file")
                ELSE pc' = "open_src" /\ UNCHANGED <<status, msg>>
    /\ UNCHANGED <<opts, locals, paths, fs, mkvars, lookups, fds, frame>>

\* Lines 208-212: src_fd = open(src_path, O_RDONLY)
OpenSrc ==
    /\ pc = "open_src"
    /\ \E fail \in {FALSE} \cup {f \in {TRUE} : CanFault} :
         LET res == IF fail THEN [err |-> "EACCES", node |-> <<>>]
                    ELSE FsOpenRead(fs, src_path)
         IN  /\ nfault' = IF fail THEN nfault + 1 ELSE nfault
             /\ IF res.err # "OK"
                THEN Fatal("failed to open file") /\ UNCHANGED src_fd
                ELSE /\ src_fd' = [node |-> res.node, off |-> 0]
                     /\ pc' = "open_tmp"
                     /\ UNCHANGED <<status, msg>>
    /\ UNCHANGED <<opts, locals, paths, fs, mkvars, lookups, tmp_fd, buf, r, frame>>

\* Lines 214-218: tmp_fd = open(tmp_path, O_RDWR | O_CREAT, 0600)
OpenTmp ==
    /\ pc = "open_tmp"
    /\ \E fail \in {FALSE} \cup {f \in {TRUE} : CanFault} :
         LET res == IF fail THEN [err |-> "EACCES", node |-> <<>>, fs |-> fs]
                    ELSE FsOpenCreate(fs, tmp_path)
         IN  /\ nfault' = IF fail THEN nfault + 1 ELSE nfault
             /\ fs' = res.fs
             /\ IF res.err # "OK"
                THEN Fatal("failed to create temporary file") /\ UNCHANGED tmp_fd
                ELSE /\ tmp_fd' = [node |-> res.node, off |-> 0]
                     /\ pc' = "malloc"
                     /\ UNCHANGED <<status, msg>>
    /\ UNCHANGED <<opts, locals, paths, mkvars, lookups, src_fd, buf, r, frame>>

\* Lines 220-222: buf = malloc(src_stat.st_blksize)
AllocBuf ==
    /\ pc = "malloc"
    /\ \E fail \in {FALSE} \cup {f \in {TRUE} : CanFault} :
         IF fail
         THEN Fatal("malloc(3) failure") /\ nfault' = nfault + 1
         ELSE pc' = "read" /\ UNCHANGED <<status, msg, nfault>>
    /\ UNCHANGED <<opts, locals, paths, fs, mkvars, lookups, fds, frame>>

\* The results read(src_fd, buf, st_blksize) may have: -1 on an error (a
\* fault, or a directory behind the descriptor), 0 at the end of the file,
\* else the number of bytes read, which only a fault makes fewer than the
\* file has left for the buffer.
ReadResults ==
    LET node == fs[src_fd.node]
        left == Len(node.data) - src_fd.off
        full == Min(BlkSize, left)
    IN  IF node.type = "dir" THEN {[n |-> -1, fault |-> FALSE]}
        ELSE IF left <= 0 THEN {[n |-> 0, fault |-> FALSE]}
        ELSE {[n |-> full, fault |-> FALSE]}
             \cup {[n |-> k, fault |-> TRUE] : k \in {j \in 1..(full - 1) : CanFault}}
    \cup {[n |-> -1, fault |-> TRUE] : k \in {j \in {1} : CanFault}}

\* Line 225: while ((r = read(src_fd, buf, src_stat.st_blksize)) > 0); the
\* loop is left, for the chmod of line 233, on any r <= 0.
Read ==
    /\ pc = "read"
    /\ \E res \in ReadResults :
         /\ r' = res.n
         /\ nfault' = IF res.fault THEN nfault + 1 ELSE nfault
         /\ IF res.n > 0
            THEN /\ buf' = SubSeq(fs[src_fd.node].data, src_fd.off + 1,
                                  src_fd.off + res.n)
                 /\ src_fd' = [src_fd EXCEPT !.off = @ + res.n]
                 /\ pc' = "write"
            ELSE /\ pc' = "chmod"
                 /\ UNCHANGED <<buf, src_fd>>
    /\ UNCHANGED <<opts, locals, paths, status, msg, fs, mkvars, lookups,
                   tmp_fd, frame>>

\* The results write(tmp_fd, buf, r) may have: r, or with a fault -1 or
\* fewer bytes than r.
WriteResults ==
    {[n |-> r, fault |-> FALSE]}
    \cup {[n |-> k, fault |-> TRUE] : k \in {j \in {-1} \cup 1..(r - 1) : CanFault}}

\* Lines 226-228: if (write(tmp_fd, buf, r) == -1) fatal(...); then the
\* next read.
Write ==
    /\ pc = "write"
    /\ \E res \in WriteResults :
         /\ nfault' = IF res.fault THEN nfault + 1 ELSE nfault
         /\ IF res.n = -1
            THEN Fatal("write(3) failure") /\ UNCHANGED <<fs, tmp_fd>>
            ELSE /\ fs' = [fs EXCEPT ![tmp_fd.node].data =
                                WriteAt(@, tmp_fd.off, SubSeq(buf, 1, res.n))]
                 /\ tmp_fd' = [tmp_fd EXCEPT !.off = @ + res.n]
                 /\ pc' = "read"
                 /\ UNCHANGED <<status, msg>>
    /\ UNCHANGED <<opts, locals, paths, mkvars, lookups, src_fd, buf, r, frame>>

\* Lines 232-234: chmod(tmp_path, mode)
Chmod ==
    /\ pc = "chmod"
    /\ \E fail \in {FALSE} \cup {f \in {TRUE} : CanFault} :
         LET res == IF fail THEN [err |-> "EPERM", fs |-> fs]
                    ELSE FsChmod(fs, tmp_path, mode[1])
         IN  /\ nfault' = IF fail THEN nfault + 1 ELSE nfault
             /\ fs' = res.fs
             /\ IF res.err # "OK"
                THEN Fatal("chmod(3) failure")
                ELSE pc' = "lchown" /\ UNCHANGED <<status, msg>>
    /\ UNCHANGED <<opts, locals, paths, mkvars, lookups, fds, frame>>

\* Lines 236-237: lchown(tmp_path, owner, group)
Lchown ==
    /\ pc = "lchown"
    /\ \E fail \in {FALSE} \cup {f \in {TRUE} : CanFault} :
         LET res == IF fail THEN [err |-> "EPERM", fs |-> fs]
                    ELSE FsLchown(fs, tmp_path, owner, group)
         IN  /\ nfault' = IF fail THEN nfault + 1 ELSE nfault
             /\ fs' = res.fs
             /\ IF res.err # "OK"
                THEN Fatal("lchown(3) failure")
                ELSE pc' = "rename" /\ UNCHANGED <<status, msg>>
    /\ UNCHANGED <<opts, locals, paths, mkvars, lookups, fds, frame>>

\* Lines 239-242: rename(tmp_path, dst_path); return 0
Rename ==
    /\ pc = "rename"
    /\ \E fail \in {FALSE} \cup {f \in {TRUE} : CanFault} :
         LET res == IF fail THEN [err |-> "EIO", fs |-> fs]
                    ELSE FsRename(fs, tmp_path, dst_path)
         IN  /\ nfault' = IF fail THEN nfault + 1 ELSE nfault
             /\ fs' = res.fs
             /\ IF res.err # "OK"
                THEN Fatal("rename(3) failure")
                ELSE status' = 0 /\ pc' = "exit" /\ UNCHANGED msg
    /\ UNCHANGED <<opts, locals, paths, mkvars, lookups, fds, frame>>

\* ------------------------------------------------------------------------
\* Invocations.

PathS == <<"s">>
PathAbsS == <<"/", "s">>
PathN == <<"n">>
PathA == <<"a">>
PathB == <<"b">>
PathAB == <<"a", "/", "b">>

\* The resolved name of a path of plain components.
Name(path) == Split(path)

\* The source's bytes: 1, 2, ..., n.
SrcData(n) == [i \in 1..n |-> i]

\* What an earlier copy of a longer file left behind.
StaleData == [i \in 1..(MaxData + 1) |-> 9]

NoPrev == [status |-> -1]

\* The next invocation, after one that got as far as its paths: the same
\* command line again, or a plain copy of s to the same destination.
Followups ==
    {[opts |-> start.opts, args |-> start.args],
     [opts |-> <<>>, args |-> <<PathS, start.args[2]>>]}

Restart ==
    /\ pc = "exit"
    /\ run < MaxRuns
    /\ dst_path # NullPath
    /\ \E inv \in Followups :
         /\ opts' = inv.opts
         /\ args' = inv.args
         /\ start' = [opts |-> inv.opts, args |-> inv.args, fs |-> fs]
    /\ prev' = [status |-> status, opts |-> start.opts, args |-> start.args,
                fs |-> fs, nfault |-> nfault]
    /\ run' = run + 1
    /\ mkdirp' = FALSE
    /\ symbolic' = FALSE
    /\ owner' = U32(MyUid)
    /\ group' = U32(MyGid)
    /\ mode' = U32(493)
    /\ src_path' = NullPath
    /\ dst_path' = NullPath
    /\ tmp_path' = NullPath
    /\ pc' = "getopt"
    /\ status' = -1
    /\ msg' = ""
    /\ mkstack' = <<>>
    /\ mklog' = <<>>
    /\ mkret' = "none"
    /\ lookups' = <<>>
    /\ src_fd' = NoFd
    /\ tmp_fd' = NoFd
    /\ buf' = <<>>
    /\ r' = 0
    /\ nfault' = 0
    /\ UNCHANGED <<fs, libc_einval>>

\* Option arguments.
ModeArgs ==
    {<<"6", "4", "4">>,
     <<"7", "7", "7", "7">>,
     <<"1", "0", "0", "0", "0">>,
     <<"9", "9", "9">>,
     <<>>,
     <<"4", "0", "0", "0", "0", "0", "0", "0", "6", "4", "4">>}

IdArgs ==
    {<<"0">>,
     <<"0", "1", "0">>,
     <<"0", "8">>,
     <<"4", "2", "9", "4", "9", "6", "7", "2", "9", "6">>,
     NameRoot,
     <<"n", "o", "n", "e">>}

Flags == {<<"D", <<>>>>, <<"l", <<>>>>}

Options ==
    Flags
    \cup {<<c, <<>>>> : c \in {"h", "?", ":", "r"}}
    \cup {<<"m", a>> : a \in ModeArgs}
    \cup {<<c, a>> : c \in {"g", "o"}, a \in IdArgs}

\* Command lines: no option, one option, a flag and one more option.
Argvs == {<<>>} \cup {<<t>> : t \in Options} \cup {<<t, u>> : t \in Flags, u \in Options}

ArgLists ==
    {<<s, d>> : s \in {PathS, PathAbsS, PathN, PathB}, d \in {PathB, PathAB}}
    \cup {<<PathA, PathB>>, <<PathS>>, <<PathS, PathB, PathB>>}

\* The file systems an invocation starts in: the source s, and with it
\* nothing, an installed b, the directory a, a regular file a, or a b.tmp
\* left behind.
FsBase == Put(<<>>, Name(PathS), RegNode(SrcData(MaxData), 420))

FsInits ==
    {FsBase,
     Put(FsBase, Name(PathB), RegNode(<<8>>, 384)),
     Put(FsBase, <<<<"a">>>>, DirNode),
     Put(FsBase, <<<<"a">>>>, RegNode(<<8>>, 384)),
     Put(FsBase, Name(TmpPath(PathB)), RegNode(StaleData, 384))}

Init ==
    /\ prev = NoPrev
    /\ libc_einval \in BOOLEAN
    /\ \E o \in Argvs, a \in ArgLists, f \in FsInits : Enter(o, a, f, 1)

Next ==
    \/ OptD \/ OptG \/ OptH \/ OptL \/ OptM \/ OptO
    \/ OptMissingArg \/ OptDefault \/ CheckArgs
    \/ MkParentsCall \/ MkParentsMkdir
    \/ Symlink
    \/ Lstat \/ OpenSrc \/ OpenTmp \/ AllocBuf \/ Read \/ Write
    \/ Chmod \/ Lchown \/ Rename
    \/ Restart

Spec == Init /\ [][Next]_vars

\* ------------------------------------------------------------------------
\* mkparents over every destination path string: install -D s <dst>.

PathChars == {"/", "a"}

PathStrings == UNION {[1..k -> PathChars] : k \in 1..MaxPathLen}

FsInitsMk ==
    {Put(<<>>, Name(PathS), RegNode(SrcData(n), 420)) : n \in 0..MaxData}
    \cup {Put(FsBase, <<<<"a">>>>, DirNode),
          Put(FsBase, <<<<"a">>>>, RegNode(<<8>>, 384))}

InitMk ==
    /\ prev = NoPrev
    /\ libc_einval = FALSE
    /\ \E d \in PathStrings, f \in FsInitsMk :
         Enter(<<<<"D", <<>>>>>>, <<PathS, d>>, f, 1)

NextMk ==
    \/ OptD \/ CheckArgs
    \/ MkParentsCall \/ MkParentsMkdir
    \/ Lstat \/ OpenSrc \/ OpenTmp \/ AllocBuf \/ Read \/ Write
    \/ Chmod \/ Lchown \/ Rename

SpecMk == InitMk /\ [][NextMk]_vars

\* ------------------------------------------------------------------------
\* What the claims speak of.

Absent == [type |-> "absent"]

\* What lstat and a read of the path show: the node at the path itself, a
\* symbolic link not followed.
View(f, path) ==
    LET res == Lookup(f, path, FALSE)
    IN  IF res.err # "OK" \/ ~res.exists THEN Absent
        ELSE IF res.path = <<>> THEN DirNode
        ELSE f[res.path]

\* The object a path leads to, symbolic links followed.
Object(f, path) ==
    LET res == Lookup(f, path, TRUE)
    IN  IF res.err # "OK" \/ ~res.exists THEN Absent
        ELSE IF res.path = <<>> THEN DirNode
        ELSE f[res.path]

\* The invocation has its paths: it is past line 169.
HasPaths == dst_path # NullPath

Exited(s) == pc = "exit" /\ status = s

\* The bytes of the source as the invocation found them.
SourceBytes == Object(start.fs, src_path).data

\* The destination as the invocation is asked to leave it.
Installed ==
    IF symbolic
    THEN [type |-> "lnk", data |-> <<>>, target |-> src_path, mode |-> 511,
          uid |-> owner, gid |-> group]
    ELSE [type |-> "reg", data |-> SourceBytes, target |-> <<>>,
          mode |-> mode[1], uid |-> owner, gid |-> group]

\* The proper directory prefixes of a path, shortest first: what precedes
\* each slash that is not the path's first character.
PrefixLens(path) == {i \in 1..(Len(path) - 1) : path[i + 1] = "/"}

DirPrefixes(path) ==
    LET S == PrefixLens(path)
    IN  [k \in 1..Cardinality(S) |->
           SubSeq(path, 1, CHOOSE i \in S : Cardinality({j \in S : j < i}) = k - 1)]

MkdirPaths == [k \in 1..Len(mklog) |-> mklog[k][1]]

IsPrefixOf(s, u) == Len(s) <= Len(u) /\ s = SubSeq(u, 1, Len(s))

\* C5: with -D, mkparents issues one mkdir for every proper directory
\* prefix of the destination, shortest first, and nothing else; once it
\* has returned 0 every one of them has been issued; a directory is
\* created only when the prefixes before it exist; after an install that
\* exits 0 every prefix is an existing directory; and for a destination
\* with no directory component (or only a leading slash) it issues nothing
\* and does not fail.
C5_MkparentsOrder ==
    (mkdirp /\ HasPaths) =>
      LET want == DirPrefixes(dst_path)
      IN  /\ IsPrefixOf(MkdirPaths, want)
          /\ mkret = "0" => MkdirPaths = want
          /\ \A k \in 1..Len(mklog) :
                mklog[k][2] = "OK" =>
                  \A j \in 1..(k - 1) : Object(fs, want[j]) # Absent
          /\ Exited(0) =>
                \A k \in 1..Len(want) :
                  /\ Object(fs, want[k]) # Absent
                  /\ Object(fs, want[k]).type = "dir"
          /\ want = <<>> => (mklog = <<>> /\ mkret # "-1")

\* C5's case: an install with -D that created two levels of directories.
C5_Witness ==
    /\ Exited(0)
    /\ mkdirp
    /\ Len(mklog) = 2
    /\ mklog[1][2] = "OK"
    /\ mklog[2][2] = "OK"

\* The arguments the command line gives option c.
OptArgs(c) == {start.opts[k][2] : k \in {j \in 1..Len(start.opts) : start.opts[j][1] = c}}

\* An octal integer string with a value in 0..07777: octal digits, at most
\* four of them after the leading zeros.
ValidMode(s) ==
    /\ Len(s) >= 1
    /\ \A k \in 1..Len(s) : s[k] \in {"0", "1", "2", "3", "4", "5", "6", "7"}
    /\ \E z \in 0..Len(s) :
         /\ \A k \in 1..z : s[k] = "0"
         /\ Len(s) - z <= 4

\* A purely numeric string.
IsDigits(s) ==
    /\ Len(s) >= 1
    /\ \A k \in 1..Len(s) : DigitVal(s[k]) < 10

\* The number a purely numeric string writes.
DecValue(s) == ScanDigits(s, 1, 10, UL(0), 0, FALSE)

\* The resolved name of the destination.
DstName == Lookup(fs, dst_path, FALSE).path

\* C1: in every state of an invocation (of a source that is not the
\* destination itself) the destination path shows either what it showed
\* when the invocation began or the fully installed result.
C1_DestinationAtomic ==
    (HasPaths /\ Split(src_path) # Split(dst_path)) =>
      \/ View(fs, dst_path) = View(start.fs, dst_path)
      \/ View(fs, dst_path) = Installed

\* C2: a plain install of an existing regular file to a destination that
\* did not exist, when it exits 0, leaves the source's bytes at the
\* destination and nothing at the temporary path.
C2_CopyExact ==
    (/\ Exited(0)
     /\ ~symbolic
     /\ View(start.fs, src_path).type = "reg"
     /\ View(start.fs, dst_path) = Absent
     /\ Split(src_path) # Split(dst_path))
    => /\ View(fs, dst_path).type = "reg"
       /\ View(fs, dst_path).data = SourceBytes
       /\ View(fs, tmp_path) = Absent

\* C3: a -m argument (of at least one character) that is not an octal
\* integer string with a value in 0..07777 never gets the invocation past its checks: no path is taken,
\* the file system stays as it was, the exit status is not 0; and an
\* argument that is one is not rejected.
C3_ModeValidated ==
    \A a \in OptArgs("m") \ {<<>>} :
       IF ValidMode(a)
       THEN msg # "invalid mode"
       ELSE /\ ~HasPaths
            /\ fs = start.fs
            /\ ~Exited(0)

\* C4: once a mkdir of mkparents has failed for a reason other than
\* "already exists" (one the file system itself gives, such as a
\* non-directory in the way), the invocation goes on to no later step: it is still
\* in mkparents, or has exited 1 on "failed to create directories" with the
\* temporary path and the destination as they were.
C4_MkdirFailureFatal ==
    (/\ nfault = 0
     /\ \E k \in 1..Len(mklog) : mklog[k][2] \notin {"OK", "EEXIST"})
    => \/ pc = "mkdir"
       \/ /\ Exited(1)
          /\ msg = "failed to create directories"
          /\ View(fs, tmp_path) = View(start.fs, tmp_path)
          /\ View(fs, dst_path) = View(start.fs, dst_path)

\* C6: once a -g (-o) option is processed: for a purely numeric argument
\* (written without a leading zero) no lookup was made and the group (owner) is the number written; for any
\* other argument the lookup was made, and if the name did not resolve the
\* invocation has exited 1 with the file system as it was.
C6_IdResolved ==
    \A c \in {"g", "o"} : \A a \in OptArgs(c) :
       LET fn   == IF c = "g" THEN "getgrnam" ELSE "getpwnam"
           id   == IF c = "g" THEN group ELSE owner
           db   == IF c = "g" THEN Getgrnam(a) ELSE Getpwnam(a)
           did  == \E k \in 1..Len(lookups) : lookups[k] = <<fn, a>>
           done == opts = <<>> \/ (pc = "exit" /\ msg \in {"invalid group", "invalid user"})
       IN  done =>
             IF IsDigits(a) /\ a[1] # "0"
             THEN /\ ~did
                  /\ ~DecValue(a).over
                  /\ DecValue(a).val = <<id[1], id[2], 0, 0>>
             ELSE /\ IsDigits(a) \/ did
                  /\ (~IsDigits(a) /\ ~db.found) => (Exited(1) /\ fs = start.fs /\ ~HasPaths)

\* C7: an invocation with -l that has its paths ends with the destination
\* a symbolic link whose target is the source path as given, whatever that
\* path names, unless the symlink step failed (an object at the temporary
\* path, a missing directory), a directory could not be allocated for, or
\* a system call was made to fail.
C7_SymlinkInstalls ==
    (symbolic /\ HasPaths /\ pc = "exit")
    => \/ /\ status = 0
          /\ View(fs, dst_path).type = "lnk"
          /\ View(fs, dst_path).target = src_path
       \/ nfault > 0
       \/ msg = "symlink(3) failure"

\* C8: the same command line (of a source that is not the destination
\* itself) run again right after it exited 0 with no system call failing
\* exits 0 again, unless a system call is made to fail this time, and an
\* exit 0 leaves the destination as the first run left it, nothing at the
\* temporary path and no other name added or removed.
C8_Idempotent ==
    (/\ run > 1
     /\ prev.status = 0
     /\ prev.nfault = 0
     /\ prev.opts = start.opts
     /\ prev.args = start.args
     /\ Split(start.args[1]) # Split(start.args[2])
     /\ pc = "exit")
    => /\ nfault = 0 => status = 0
       /\ status = 0 =>
            /\ View(fs, dst_path) = View(prev.fs, dst_path)
            /\ View(fs, tmp_path) = Absent
            /\ DOMAIN fs = DOMAIN prev.fs

\* C9: a copy that exits 0, no system call having failed, where an object
\* was already at the temporary path leaves the destination a regular file with the source's bytes and
\* the requested mode, owner and group, and leaves every file under
\* another name as it was.
C9_StaleTmpHarmless ==
    (/\ Exited(0)
     /\ ~symbolic
     /\ nfault = 0
     /\ View(start.fs, tmp_path) # Absent)
    => /\ View(fs, dst_path) = Installed
       /\ \A p \in (DOMAIN fs \cup DOMAIN start.fs) \ {DstName, Split(tmp_path)} :
            \/ p \in DOMAIN fs /\ p \in DOMAIN start.fs /\ fs[p] = start.fs[p]
            \/ p \in DOMAIN fs /\ fs[p].type = "dir"

\* C10: what the source path names, when that is neither the destination
\* nor the temporary path, stays as it was: content, permission bits,
\* owner and group.
C10_SourceUntouched ==
    (/\ HasPaths
     /\ Split(src_path) \notin {Split(dst_path), Split(tmp_path)})
    => /\ View(fs, src_path) = View(start.fs, src_path)
       /\ Object(fs, src_path) = Object(start.fs, src_path)

====
